---- MODULE Spec2Model ----
(***************************************************************************)
(* Model of the event scanner of popelev/coin_balance (src/event_filter.py) *)
(*                                                                         *)
(*   - _retry_web3_call        retry-and-shrink of one eth_get_logs range   *)
(*   - estimate_next_chunk_size and its use in asincScan (chunk sizing)     *)
(*   - get_contract_creation_block (binary search for the creation block)   *)
(*   - EventScanner.scan: the segment tasks, scan_chunk, end_chunk          *)
(*   - filter.run: one scan cycle                                          *)
(*                                                                         *)
(* Each part has its own specification (SpecRetry, SpecSizer, SpecLocator,  *)
(* SpecPartition, SpecSink, SpecScan, SpecScanSmall, SpecScanLive,         *)
(* SpecRun); the variables of the other parts stay at their idle values.   *)
(***************************************************************************)
EXTENDS Integers, Sequences, FiniteSets, TLC

VARIABLES
    rw,         \* _retry_web3_call: the frame of one call (record, see InitRetry)
    oracleW,    \* the node: W > 0 = rejects every range of more than W blocks, 0 = no such limit
    faults,     \* the node: how many more queries may fail for any other reason (timeout, ...)
    sz,         \* chunk sizing: scanner configuration, chunk_size and its history
    loc,        \* get_contract_creation_block: the frame of the current recursion level
    chain,      \* the chain the node serves: latest block, logs, headers, creation block
    mongo,      \* mongo.lastScannedBlock of the contract: block_number, Null when absent
    run,        \* filter.run: where the cycle is, latest_block, cutoff_block, end_block
    scan,       \* EventScanner.scan: its arguments, where it is, self.all_processed
    tasks,      \* the segment tasks of taskCreator, in creation order
    blocks,     \* JSONifiedState.state["blocks"]: the recorded transfers
    last_end_chunk  \* the last block number passed to state.end_chunk, Null before the first

vars == <<rw, oracleW, faults, sz, loc, chain, mongo, run, scan, tasks, blocks, last_end_chunk>>
retryVars == <<rw, oracleW, faults>>
scanVars == <<chain, mongo, run, scan, tasks, blocks, last_end_chunk>>
sizerVars == <<sz>>
locatorVars == <<loc>>

Null == -1      \* Python's None where an integer is expected

(***************************************************************************)
(* Bounds of the model                                                     *)
(***************************************************************************)
MaxSpan == 9          \* small ranges tried by the retry loop: to - from in 0..MaxSpan
MaxRetries == 5       \* retries in 0..MaxRetries (the scanner's default is 4)
MaxW == 4             \* oracle widths 1..MaxW
MaxHeight == 9        \* block heights of the creation-block search: 1..MaxHeight
RecursionLimit == 12  \* depth at which the interpreter raises RecursionError
MaxChunks == 7        \* chunks followed by the sizing model
MaxSmallSize == 12    \* small chunk sizes / configured ceilings tried: 1..MaxSmallSize
MaxFaults == 1        \* queries that may fail for no reason of the range, per scan
MaxScanW == 40        \* the width limit of the node with a width limit, in the scans
MaxSinkEvents == 3    \* events handed to process_event when it is run on its own
MaxSegments == 4      \* ranges partitioned on their own: up to MaxSegments * MAX_CHUNK_SIZE + 2 blocks

(***************************************************************************)
(* Program constants                                                       *)
(***************************************************************************)
MAX_CHUNK_SIZE == 1000
min_scan_chunk_size == 10
default_max_chunk_scan_size == 10000
default_max_request_retries == 4
start_chunk_size == 20
chunk_size_increase == 2

Min(a, b) == IF a <= b THEN a ELSE b
Max(a, b) == IF a >= b THEN a ELSE b

(***************************************************************************)
(* _retry_web3_call(func, start_block, end_block, retries, delay)          *)
(***************************************************************************)

\* line 319: end_block = start_block + ((end_block - start_block) // 2)
\* (\div is floor division, as Python's // is)
ShrinkEndNoAnchor(start_block, end_block) == end_block \div 2
ShrinkEndByOne(start_block, end_block) == Max(start_block, end_block - 1)
ShrinkEnd(start_block, end_block) ==
    start_block + ((end_block - start_block) \div 2)

\* line 315: the failed attempt i is followed by a retry
HasRetryLeftOffByOne(i, retries) == i < retries
HasRetryLeft(i, retries) == i < retries - 1

\* The frame when _retry_web3_call is entered: `for i in range(retries)` runs
\* no iteration when retries = 0 and the function then returns None.
RetryEnter(start_block, end_block, retries) ==
    [start_block |-> start_block,
     end_block   |-> end_block,        \* the local end_block, shrunk by retries
     requested   |-> end_block,        \* the end_block the caller passed
     retries     |-> retries,
     i           |-> 0,
     pc          |-> IF retries > 0 THEN "calling" ELSE "returned_none",
     calls       |-> << >>,            \* the calls of func so far: range and outcome
     err         |-> 0,                \* the attempt (1-based) whose error is raised
     ret_end     |-> Null,             \* first component of the returned tuple
     ret_logs    |-> << >>]            \* the range func answered for the returned logs

\* One call func(from_block, to_block) and whether it returned (ok) or raised
Call(from_block, to_block, ok) == [from_block |-> from_block, to_block |-> to_block, ok |-> ok]

\* The node's answer to func(start_block, end_block)
\* for the frame f of a pending call: the range is too wide for the node, or
\* reaches beyond the head of a node that refuses such ranges
ForcedReject(f) ==
    \/ oracleW > 0 /\ f.end_block - f.start_block + 1 > oracleW
    \/ chain.strict_head /\ f.end_block > chain.latest
NodeAccepts(f) == ~ForcedReject(f)
NodeRejects(f) == ForcedReject(f) \/ faults > 0
FaultsAfter(f) == IF ForcedReject(f) THEN faults ELSE faults - 1

\* line 310: func returned; return end_block, logs
RetryOnReturn(f) ==
    [f EXCEPT !.pc = "returned",
              !.calls = Append(f.calls, Call(f.start_block, f.end_block, TRUE)),
              !.ret_end = f.end_block,
              !.ret_logs = <<f.start_block, f.end_block>>]

\* lines 311-325: func raised
RetryOnError(f) ==
    IF HasRetryLeft(f.i, f.retries)
    THEN [f EXCEPT !.calls = Append(f.calls, Call(f.start_block, f.end_block, FALSE)),
                   !.end_block = ShrinkEnd(f.start_block, f.end_block),
                   !.i = f.i + 1]
    ELSE [f EXCEPT !.calls = Append(f.calls, Call(f.start_block, f.end_block, FALSE)),
                   !.err = f.i + 1,
                   !.pc = "raised"]

RetryIdle == RetryEnter(0, 0, 0)

(***************************************************************************)
(* estimate_next_chunk_size and the chunk size of asincScan                *)
(***************************************************************************)

\* lines 227-235.  The sizes are whole numbers throughout (an int times 2.0 is
\* a whole float), so int() at line 235 changes no value.
EstimateNoUpperClamp(max_scan_chunk_size, current_chuck_size, event_found_count) ==
    Max(min_scan_chunk_size,
        IF event_found_count > 0 THEN min_scan_chunk_size
        ELSE current_chuck_size * chunk_size_increase)
EstimateHalveOnHit(max_scan_chunk_size, current_chuck_size, event_found_count) ==
    Min(max_scan_chunk_size,
        Max(min_scan_chunk_size,
            IF event_found_count > 0 THEN current_chuck_size \div 2
            ELSE current_chuck_size * chunk_size_increase))
estimate_next_chunk_size(max_scan_chunk_size, current_chuck_size, event_found_count) ==
    LET c1 == IF event_found_count > 0
              THEN min_scan_chunk_size
              ELSE current_chuck_size * chunk_size_increase
        c2 == Max(min_scan_chunk_size, c1)
        c3 == Min(max_scan_chunk_size, c2)
    IN  c3

\* lines 267-269: the chunk size asincScan uses for its next chunk
NextChunkSize(max_scan_chunk_size, chunk_size, found) ==
    LET e == estimate_next_chunk_size(max_scan_chunk_size, chunk_size, found)
    IN  IF e <= MAX_CHUNK_SIZE THEN e ELSE MAX_CHUNK_SIZE

SizerIdle ==
    [max_scan_chunk_size |-> MAX_CHUNK_SIZE, initial |-> start_chunk_size,
     chunk_size |-> start_chunk_size, est |-> Null, sizes |-> << >>, found |-> << >>]

(***************************************************************************)
(* get_contract_creation_block(web3, address, blocknumber_from,            *)
(*                             blocknumber_to, count)                      *)
(***************************************************************************)

\* web3.eth.get_code(address, b) != '0x' for a contract created at block
\* `creation`: the code is there from the creation block on.
HasCode(creation, b) == b >= creation

\* line 393
MiddleBlock(blocknumber_from, blocknumber_to) ==
    (blocknumber_from + blocknumber_to) \div 2

LocatorEnter(lo, hi, creation) ==
    [blocknumber_from |-> lo, blocknumber_to |-> hi, count |-> 0,
     pc |-> "running", result |-> Null, queries |-> 0,
     lo |-> lo, hi |-> hi, creation |-> creation]

LocatorIdle == [LocatorEnter(1, 1, 1) EXCEPT !.pc = "idle"]

\* One level of the recursion, lines 393-403.  The recursive call is entered
\* with count + 1; a level deeper than the interpreter's recursion limit
\* raises RecursionError.
LocatorLevel(f) ==
    LET middle_block == MiddleBlock(f.blocknumber_from, f.blocknumber_to)
        n_minus_one_is_contract == HasCode(f.creation, middle_block - 1)
        n_is_contract == HasCode(f.creation, middle_block)
        g == [f EXCEPT !.queries = f.queries + 2]
        deeper(lo, hi) ==
            IF f.count + 1 >= RecursionLimit
            THEN [g EXCEPT !.pc = "RecursionError"]
            ELSE [g EXCEPT !.blocknumber_from = lo, !.blocknumber_to = hi,
                           !.count = f.count + 1]
    IN  IF n_is_contract /\ ~n_minus_one_is_contract
        THEN [g EXCEPT !.pc = "returned", !.result = middle_block]
        ELSE IF n_is_contract /\ n_minus_one_is_contract
        THEN deeper(f.blocknumber_from, middle_block)
        ELSE deeper(middle_block, f.blocknumber_to)

(***************************************************************************)
(* The chain and the node                                                  *)
(***************************************************************************)

\* One decoded log as get_event_data returns it.  logIndex = Null: the log is
\* in a pending block.
Log(blockNumber, transactionHash, logIndex) ==
    [blockNumber |-> blockNumber, transactionHash |-> transactionHash,
     logIndex |-> logIndex]

\* A chain: the height of the latest block, the contract's logs in the order
\* the node returns them, the heights below the head whose header the node
\* does not find (a reorganisation detached them), the contract's creation
\* block, and whether the node refuses ranges that reach beyond its head.
Chain(latest, logs, missing, creation, strict_head) ==
    [latest |-> latest, logs |-> logs, missing |-> missing,
     creation |-> creation, strict_head |-> strict_head]

\* web3.eth.get_logs for [from_block, to_block], decoded (lines 375-387)
fetch_events_for_all_contracts(from_block, to_block) ==
    SelectSeq(chain.logs,
              LAMBDA e : from_block <= e.blockNumber /\ e.blockNumber <= to_block)

\* get_block_timestamp, lines 110-119: None (Null) when the block is not
\* found, else the header's timestamp.  The timestamp of block h is written
\* as 1000000 + h, so that it differs from every height.
HeaderTimestamp(block_num) == 1000000 + block_num
get_block_timestamp(block_num) ==
    IF block_num > chain.latest \/ block_num \in chain.missing
    THEN Null
    ELSE HeaderTimestamp(block_num)

(***************************************************************************)
(* EventScanner.scan: taskCreator, asincScan, scan_chunk                   *)
(***************************************************************************)

\* The scanner filter.run builds: max_chunk_scan_size = MAX_CHUNK_SIZE (line
\* 549) and the default max_request_retries (line 74).
scanner_max_scan_chunk_size == MAX_CHUNK_SIZE
scanner_max_request_retries == default_max_request_retries

\* lines 253 and 181-186: the frame of _retry_web3_call for the chunk that
\* starts at current_block
EstimatedEnd(current_block, chunk_size, end_b) == current_block + chunk_size

\* asincScan at the top of its while loop (lines 251-257): it either leaves the
\* loop, or enters scan_chunk and is suspended in the first get_logs call.
LoopTop(t) ==
    IF t.current_block <= t.end_b
    THEN LET f == RetryEnter(t.current_block,
                             EstimatedEnd(t.current_block, t.chunk_size, t.end_b),
                             scanner_max_request_retries)
         IN  [t EXCEPT !.pc = IF f.pc = "calling" THEN "get_logs" ELSE "failed",
                       !.error = IF f.pc = "calling" THEN "" ELSE "TypeError",
                       !.fetch = f,
                       !.events = << >>,
                       !.new_entries = << >>,
                       !.block_timestamps = << >>]
    ELSE [t EXCEPT !.pc = "done"]

\* asyncio.create_task(asincScan(start, stop, start_chunk)), run up to its
\* first suspension
Task(start_b, end_b, chunk_size) ==
    LoopTop([start_b |-> start_b, end_b |-> end_b,
             current_block |-> start_b, chunk_size |-> chunk_size,
             pc |-> "new", error |-> "", fetch |-> RetryIdle,
             events |-> << >>, new_entries |-> << >>,
             block_timestamps |-> << >>,
             chunks |-> 0,
             answered |-> << >>,     \* the ranges of the log queries that returned
             not_found |-> {}])      \* the heights whose header lookup found no block

\* lines 276-283: the segments taskCreator creates for [start_b, end_b]
RECURSIVE SegmentsInclusiveStop(_, _, _)
SegmentsInclusiveStop(cursor_b, end_b, start_chunk) ==
    IF cursor_b + MAX_CHUNK_SIZE < end_b
    THEN <<Task(cursor_b, cursor_b + MAX_CHUNK_SIZE, start_chunk)>>
         \o SegmentsInclusiveStop(cursor_b + MAX_CHUNK_SIZE, end_b, start_chunk)
    ELSE <<Task(cursor_b, end_b, start_chunk)>>
RECURSIVE Segments(_, _, _)
Segments(cursor_b, end_b, start_chunk) ==
    IF cursor_b + MAX_CHUNK_SIZE < end_b
    THEN <<Task(cursor_b, cursor_b + MAX_CHUNK_SIZE - 1, start_chunk)>>
         \o Segments(cursor_b + MAX_CHUNK_SIZE, end_b, start_chunk)
    ELSE <<Task(cursor_b, end_b, start_chunk)>>

\* The cache of scan_chunk: block_timestamps, a sequence of <<height, when>>
Cached(t, block_num) == \E k \in 1..Len(t.block_timestamps) : t.block_timestamps[k][1] = block_num
CachedWhenFirst(t, block_num) == t.block_timestamps[1][2]
CachedWhen(t, block_num) ==
    LET k == CHOOSE k \in 1..Len(t.block_timestamps) : t.block_timestamps[k][1] = block_num
    IN  t.block_timestamps[k][2]

\* JSONifiedState.process_event, lines 485-521: the transfer is recorded under
\* state["blocks"][block_number][txhash][log_index]; the pointer returned is
\* "{block_number}-{txhash}-{log_index}".
\* line 492: txhash = event.transactionHash.hex(), the hash written in
\* hexadecimal (one string per hash)
hex(transactionHash) == <<"hex", transactionHash>>
EventKey(evt) == <<evt.blockNumber, hex(evt.transactionHash), evt.logIndex>>
\* line 503: the transfer holds block_when.isoformat(), a string written from
\* the datetime (and one per datetime)
isoformat(block_when) == <<"isoformat", block_when>>
ProcessEventNewTxEntry(store, block_when, evt) ==
    {r \in store : ~(r.key[1] = evt.blockNumber /\ r.key[2] = hex(evt.transactionHash))}
        \cup {[key |-> EventKey(evt), timestamp |-> isoformat(block_when)]}
process_event(store, block_when, evt) ==
    {r \in store : r.key # EventKey(evt)}
        \cup {[key |-> EventKey(evt), timestamp |-> isoformat(block_when)]}

\* JSONifiedState.end_chunk is a coroutine function (line 480) that asincScan
\* calls without awaiting it (line 274): the call only creates a coroutine
\* object, its body never runs and the document in mongo stays as it is.
end_chunk(document, block_number) == document

\* A world: the task that is running and the shared state it reads and writes
World(t) ==
    [t |-> t, blocks |-> blocks, all_processed |-> scan.all_processed,
     last_end_chunk |-> last_end_chunk, mongo |-> mongo,
     header_calls |-> scan.header_calls, header_repeats |-> scan.header_repeats]

Fail(w, error) == [w EXCEPT !.t.pc = "failed", !.t.error = error]

\* line 272: where the next chunk starts, from the frame f of the
\* _retry_web3_call that returned (current_end is the returned end block)
NextCurrentBlockRequested(f) == f.requested + 1
NextCurrentBlock(f) == f.ret_end + 1

\* scan_chunk returned (line 206); asincScan lines 258-274, then the loop top
FinishChunk(w) ==
    LET t == w.t
        actual_end_block == t.fetch.ret_end
    IN  [w EXCEPT
           !.all_processed = w.all_processed \o t.new_entries,
           !.last_end_chunk = actual_end_block,
           !.mongo = end_chunk(w.mongo, actual_end_block),
           !.t = LoopTop([t EXCEPT
                     !.chunk_size = NextChunkSize(scanner_max_scan_chunk_size,
                                                  t.chunk_size, Len(t.new_entries)),
                     !.current_block = NextCurrentBlock(t.fetch),
                     !.chunks = t.chunks + 1])]

\* line 205: end_block_timestamp = await get_block_when(end_block); the call
\* suspends unless the end block is cached
AfterEvents(w) ==
    IF Cached(w.t, w.t.fetch.ret_end)
    THEN FinishChunk(w)
    ELSE [w EXCEPT !.t.pc = "end_ts"]

\* lines 189-194: the log is in a pending block
IsPendingNever(evt) == FALSE
IsPending(evt) == evt.logIndex = Null

\* lines 188-203: the loop over the events, from the first one not processed
\* yet up to the next suspension (a block whose timestamp is not cached), the
\* first failure, or the end of the events
RECURSIVE Drain(_)
Drain(w) ==
    IF w.t.events = << >>
    THEN AfterEvents(w)
    ELSE LET evt == Head(w.t.events)
         IN  IF IsPending(evt)
             THEN Fail(w, "AssertionError")
             ELSE IF ~Cached(w.t, evt.blockNumber)
             THEN [w EXCEPT !.t.pc = "event_ts"]
             ELSE IF CachedWhen(w.t, evt.blockNumber) = Null
             THEN Fail(w, "AttributeError")      \* block_when.isoformat(), line 503
             ELSE Drain([w EXCEPT
                     !.blocks = process_event(w.blocks,
                                              CachedWhen(w.t, evt.blockNumber), evt),
                     !.t.new_entries = Append(w.t.new_entries, EventKey(evt)),
                     !.t.events = Tail(w.t.events)])

\* line 162: block_timestamps[block_num] = await get_block_timestamp(block_num).
\* The heights get_block_timestamp was called for since scan was entered are
\* noted in header_calls, those it was called for again in header_repeats.
CacheTimestamp(w, block_num) ==
    [w EXCEPT !.t.block_timestamps =
                  Append(w.t.block_timestamps, <<block_num, get_block_timestamp(block_num)>>),
              !.t.not_found = IF get_block_timestamp(block_num) = Null
                              THEN w.t.not_found \cup {block_num}
                              ELSE w.t.not_found,
              !.header_calls = w.header_calls \cup {block_num},
              !.header_repeats = IF block_num \in w.header_calls
                                 THEN w.header_repeats \cup {block_num}
                                 ELSE w.header_repeats]

\* The world after task i took a step that left it as w
Publish(i, w) ==
    /\ tasks' = [tasks EXCEPT ![i] = w.t]
    /\ blocks' = w.blocks
    /\ scan' = [scan EXCEPT !.all_processed = w.all_processed,
                            !.header_calls = w.header_calls,
                            !.header_repeats = w.header_repeats]
    /\ last_end_chunk' = w.last_end_chunk
    /\ mongo' = w.mongo

\* line 322: time.sleep(delay) is the blocking sleep of the time module, not
\* an await: the task that sleeps keeps the thread of the event loop, and
\* until the sleep is over the loop resumes no task and no gather
LoopBlocked == \E i \in 1..Len(tasks) : tasks[i].pc = "sleeping"

\* get_logs of task i raised: _retry_web3_call shrinks the range and sleeps,
\* or is out of retries and raises (lines 311-325)
TaskGetLogsRaises(i) ==
    /\ ~LoopBlocked
    /\ tasks[i].pc = "get_logs"
    /\ NodeRejects(tasks[i].fetch)
    /\ faults' = FaultsAfter(tasks[i].fetch)
    /\ LET f == RetryOnError(tasks[i].fetch)
           t == [tasks[i] EXCEPT !.fetch = f]
       IN  Publish(i, IF f.pc = "raised" THEN Fail(World(t), "RetriesExhausted")
                      ELSE World([t EXCEPT !.pc = "sleeping"]))
    /\ UNCHANGED <<rw, oracleW, sizerVars, locatorVars, chain, run>>

\* lines 322-323 and 310: the sleep of task i is over; the loop continues and
\* calls func on the range shrunk before the sleep
TaskSleepEnds(i) ==
    /\ tasks[i].pc = "sleeping"
    /\ tasks' = [tasks EXCEPT ![i].pc = "get_logs"]
    /\ UNCHANGED <<retryVars, sizerVars, locatorVars, chain, mongo, run, scan, blocks, last_end_chunk>>

\* get_logs of task i returned: lines 310, 181 and the loop over the events
TaskGetLogsReturns(i) ==
    /\ ~LoopBlocked
    /\ tasks[i].pc = "get_logs"
    /\ NodeAccepts(tasks[i].fetch)
    /\ LET f == RetryOnReturn(tasks[i].fetch)
           t == [tasks[i] EXCEPT
                    !.fetch = f,
                    !.answered = Append(tasks[i].answered, f.ret_logs),
                    !.events = fetch_events_for_all_contracts(f.start_block, f.end_block)]
       IN  Publish(i, Drain(World(t)))
    /\ UNCHANGED <<retryVars, sizerVars, locatorVars, chain, run>>

\* get_block for the block of the event at hand answered (line 200)
TaskEventTimestamp(i) ==
    /\ ~LoopBlocked
    /\ tasks[i].pc = "event_ts"
    /\ Publish(i, Drain(CacheTimestamp(World(tasks[i]),
                                       Head(tasks[i].events).blockNumber)))
    /\ UNCHANGED <<retryVars, sizerVars, locatorVars, chain, run>>

\* get_block for the end block of the chunk answered (line 205)
TaskEndTimestamp(i) ==
    /\ ~LoopBlocked
    /\ tasks[i].pc = "end_ts"
    /\ Publish(i, FinishChunk(CacheTimestamp(World(tasks[i]), tasks[i].fetch.ret_end)))
    /\ UNCHANGED <<retryVars, sizerVars, locatorVars, chain, run>>

\* scan(start_block, end_block, start_chunk_size) up to `await gather`: the
\* tasks exist and each is suspended in its first get_logs call
ScanEnter(start_block, end_block, chunk) ==
    [start_block |-> start_block, end_block |-> end_block,
     pc |-> "gathering", all_processed |-> << >>, error |-> "",
     header_calls |-> {}, header_repeats |-> {}]

\* line 285: gather raises the exception of the first task that failed, and
\* scan raises it; the other tasks are not cancelled
ScanRaises ==
    /\ ~LoopBlocked
    /\ scan.pc = "gathering"
    /\ \E i \in 1..Len(tasks) :
          /\ tasks[i].pc = "failed"
          /\ scan' = [scan EXCEPT !.pc = "raised", !.error = tasks[i].error]
    /\ run' = IF run.pc = "scanning" THEN [run EXCEPT !.pc = "failed"] ELSE run
    /\ UNCHANGED <<retryVars, sizerVars, locatorVars, chain, mongo, tasks, blocks, last_end_chunk>>

\* lines 285-290: every task is done; scan returns self.all_processed
ScanReturns ==
    /\ ~LoopBlocked
    /\ scan.pc = "gathering"
    /\ \A i \in 1..Len(tasks) : tasks[i].pc = "done"
    /\ scan' = [scan EXCEPT !.pc = "returned"]
    /\ run' = IF run.pc = "scanning" THEN [run EXCEPT !.pc = "done"] ELSE run
    /\ UNCHANGED <<retryVars, sizerVars, locatorVars, chain, mongo, tasks, blocks, last_end_chunk>>

RunIdle == [pc |-> "idle", latest_block |-> Null, cutoff_block |-> Null, end_block |-> Null]
ChainIdle == Chain(0, << >>, {}, 0, FALSE)

ScanIdle ==
    /\ chain = ChainIdle
    /\ mongo = Null
    /\ run = RunIdle
    /\ scan = [ScanEnter(0, 0, 0) EXCEPT !.pc = "idle"]
    /\ tasks = << >>
    /\ blocks = {}
    /\ last_end_chunk = Null

(***************************************************************************)
(* The retry loop run on its own: one call of _retry_web3_call             *)
(***************************************************************************)
Spans == (0..MaxSpan) \cup {MAX_CHUNK_SIZE}
Starts == {0, 1, 7, MAX_CHUNK_SIZE}

InitRetry ==
    /\ \/ oracleW \in 1..MaxW /\ faults = 0
       \/ oracleW = 0 /\ faults = MaxRetries
    /\ \E s \in Starts, d \in Spans, r \in 0..MaxRetries :
          rw = RetryEnter(s, s + d, r)
    /\ sz = SizerIdle
    /\ loc = LocatorIdle
    /\ ScanIdle

RetryCallReturns ==
    /\ rw.pc = "calling"
    /\ NodeAccepts(rw)
    /\ rw' = RetryOnReturn(rw)
    /\ UNCHANGED <<oracleW, faults, sizerVars, locatorVars, scanVars>>

RetryCallRaises ==
    /\ rw.pc = "calling"
    /\ NodeRejects(rw)
    /\ rw' = RetryOnError(rw)
    /\ faults' = FaultsAfter(rw)
    /\ UNCHANGED <<oracleW, sizerVars, locatorVars, scanVars>>

NextRetry == RetryCallReturns \/ RetryCallRaises

(***************************************************************************)
(* The chunk sizing run on its own: the sizes of one segment's chunks      *)
(***************************************************************************)
ConfiguredMax == (1..MaxSmallSize) \cup {MAX_CHUNK_SIZE, default_max_chunk_scan_size}
InitialSizes == {0, 1, MaxSmallSize, start_chunk_size}
FoundCounts == {0, 3}

InitSizer ==
    /\ rw = RetryIdle /\ oracleW = 0 /\ faults = 0 /\ loc = LocatorIdle
    /\ ScanIdle
    /\ \E m \in ConfiguredMax, c \in InitialSizes :
        sz = [SizerIdle EXCEPT !.max_scan_chunk_size = m, !.initial = c, !.chunk_size = c]

\* One chunk of asincScan that returned n events: lines 258, 267-269
SizerChunk ==
    /\ Len(sz.sizes) < MaxChunks
    /\ \E n \in FoundCounts :
          sz' = [sz EXCEPT
                   !.est = estimate_next_chunk_size(sz.max_scan_chunk_size, sz.chunk_size, n),
                   !.chunk_size = NextChunkSize(sz.max_scan_chunk_size, sz.chunk_size, n),
                   !.sizes = Append(sz.sizes, NextChunkSize(sz.max_scan_chunk_size, sz.chunk_size, n)),
                   !.found = Append(sz.found, n)]
    /\ UNCHANGED <<retryVars, locatorVars, scanVars>>

NextSizer == SizerChunk

(***************************************************************************)
(* The creation-block search run on its own                                *)
(***************************************************************************)
InitLocator ==
    /\ rw = RetryIdle /\ oracleW = 0 /\ faults = 0 /\ sz = SizerIdle
    /\ ScanIdle
    /\ \E lo \in 1..MaxHeight, hi \in 1..MaxHeight, c \in 0..(MaxHeight + 1) :
        /\ lo <= hi
        /\ loc = LocatorEnter(lo, hi, c)

LocatorStep ==
    /\ loc.pc = "running"
    /\ loc' = LocatorLevel(loc)
    /\ UNCHANGED <<retryVars, sizerVars, scanVars>>

NextLocator == LocatorStep

(***************************************************************************)
(* scan called on its own                                                  *)
(***************************************************************************)

\* The chains tried: a quiet one; one with two logs in one block, a log in
\* the overlap of two segments and one past the first segment; one where the
\* header of a log's block is not found; one that returns a pending log.
QuietChain == Chain(5000, << >>, {}, 1, FALSE)
BusyChain ==
    Chain(5000, <<Log(7, 1, 0), Log(7, 1, 1), Log(1001, 2, 0), Log(1030, 3, 4)>>,
          {}, 1, FALSE)
ReorgChain == Chain(5000, <<Log(7, 1, 0), Log(1001, 2, 0)>>, {7}, 1, FALSE)
PendingChain == Chain(1010, <<Log(7, 1, 0), Log(1011, 2, Null)>>, {}, 1, FALSE)
\* one whose node returns a mined log and a pending one in the same range
TornChain == Chain(5000, <<Log(7, 1, 0), Log(9, 2, Null)>>, {}, 1, FALSE)
\* one whose head (block 25) lies inside the ranges scanned, served by a node
\* that answers log queries reaching beyond its head
HeadChain == Chain(25, <<Log(7, 1, 0)>>, {}, 1, FALSE)
ScanChains == {QuietChain, BusyChain, ReorgChain, PendingChain, TornChain, HeadChain}

\* the ranges scan is called on: one segment, two, and two with a last
\* segment of MAX_CHUNK_SIZE + 1 blocks
ScanRanges == {<<1, 30>>, <<1, 1002>>, <<1, 2001>>}

InitScan ==
    /\ rw = RetryIdle /\ sz = SizerIdle /\ loc = LocatorIdle
    /\ oracleW \in {0, MaxScanW}
    /\ faults \in 0..MaxFaults
    /\ chain \in ScanChains
    /\ mongo \in {Null, 1}
    /\ run = RunIdle
    /\ \E r \in ScanRanges :
          /\ scan = ScanEnter(r[1], r[2], start_chunk_size)
          /\ tasks = Segments(r[1], r[2], start_chunk_size)
    /\ blocks = {}
    /\ last_end_chunk = Null

\* the scans whose end is checked: one segment and two, on every chain,
\* against a node without a width limit and one with, with and without a
\* query that fails for another reason
ScanLiveRanges == {<<1, 30>>, <<1, 1002>>}

InitScanLive ==
    /\ rw = RetryIdle /\ sz = SizerIdle /\ loc = LocatorIdle
    /\ oracleW \in {0, MaxScanW}
    /\ faults \in 0..MaxFaults
    /\ chain \in ScanChains
    /\ mongo = Null
    /\ run = RunIdle
    /\ \E r \in ScanLiveRanges :
          /\ scan = ScanEnter(r[1], r[2], start_chunk_size)
          /\ tasks = Segments(r[1], r[2], start_chunk_size)
    /\ blocks = {}
    /\ last_end_chunk = Null

NextScan ==
    \/ \E i \in 1..Len(tasks) : TaskGetLogsRaises(i)
    \/ \E i \in 1..Len(tasks) : TaskSleepEnds(i)
    \/ \E i \in 1..Len(tasks) : TaskGetLogsReturns(i)
    \/ \E i \in 1..Len(tasks) : TaskEventTimestamp(i)
    \/ \E i \in 1..Len(tasks) : TaskEndTimestamp(i)
    \/ ScanRaises
    \/ ScanReturns

(***************************************************************************)
(* taskCreator's partition run on its own: scan called on [s, s + d]       *)
(***************************************************************************)
PartitionStarts == {0, 1, 7, MAX_CHUNK_SIZE}
PartitionSpans ==
    {k * MAX_CHUNK_SIZE + d : k \in 0..MaxSegments, d \in 0..2}
        \cup {k * MAX_CHUNK_SIZE - 1 : k \in 1..MaxSegments}

\* scan has been called (line 240 holds: start_block <= end_block) and
\* taskCreator has not created the tasks yet
InitPartition ==
    /\ rw = RetryIdle /\ oracleW = 0 /\ faults = 0
    /\ sz = SizerIdle /\ loc = LocatorIdle
    /\ chain = QuietChain
    /\ mongo = Null
    /\ run = RunIdle
    /\ \E s \in PartitionStarts, d \in PartitionSpans :
          scan = [ScanEnter(s, s + d, start_chunk_size) EXCEPT !.pc = "called"]
    /\ tasks = << >>
    /\ blocks = {}
    /\ last_end_chunk = Null

\* lines 276-283: the tasks are created
PartitionCreate ==
    /\ scan.pc = "called"
    /\ scan' = [scan EXCEPT !.pc = "gathering"]
    /\ tasks' = Segments(scan.start_block, scan.end_block, start_chunk_size)
    /\ UNCHANGED <<retryVars, sizerVars, locatorVars, chain, mongo, run, blocks, last_end_chunk>>

NextPartition == PartitionCreate

(***************************************************************************)
(* process_event run on its own: decoded events handed to the state        *)
(***************************************************************************)

\* the events handed: two blocks, two transactions each, two logs each
SinkEvents == {Log(b, tx, li) : b \in {7, 8}, tx \in {1, 2}, li \in {0, 1}}

\* a state that has been reset (lines 451-456); scan.all_processed keeps the
\* pointers process_event returned, in the order of the calls
InitSink ==
    /\ rw = RetryIdle /\ oracleW = 0 /\ faults = 0
    /\ sz = SizerIdle /\ loc = LocatorIdle
    /\ chain = QuietChain
    /\ mongo = Null
    /\ run = RunIdle
    /\ scan = [ScanEnter(0, 0, 0) EXCEPT !.pc = "sink"]
    /\ tasks = << >>
    /\ blocks = {}
    /\ last_end_chunk = Null

\* processed = self.state.process_event(block_when, evt), lines 200-203
SinkProcess ==
    /\ scan.pc = "sink"
    /\ Len(scan.all_processed) < MaxSinkEvents
    /\ \E evt \in SinkEvents :
          /\ blocks' = process_event(blocks, get_block_timestamp(evt.blockNumber), evt)
          /\ scan' = [scan EXCEPT !.all_processed = Append(scan.all_processed, EventKey(evt))]
    /\ UNCHANGED <<retryVars, sizerVars, locatorVars, chain, mongo, run, tasks, last_end_chunk>>

NextSink == SinkProcess

(***************************************************************************)
(* filter.run: one scan cycle                                              *)
(***************************************************************************)

\* lines 534-535, 564-568: the state is restored (last_scanned_block is the
\* document's block_number, 0 when there is none), the latest block is read,
\* and with no cursor the creation block is searched in [1, latest_block]
RunStart ==
    /\ run.pc = "start"
    /\ LET last_scanned_block == IF mongo = Null THEN 0 ELSE mongo
       IN  IF last_scanned_block = 0
           THEN /\ run' = [run EXCEPT !.pc = "locating", !.latest_block = chain.latest]
                /\ loc' = LocatorEnter(1, chain.latest, chain.creation)
           ELSE /\ run' = [run EXCEPT !.pc = "ready", !.latest_block = chain.latest,
                                      !.cutoff_block = last_scanned_block]
                /\ loc' = loc
    /\ UNCHANGED <<retryVars, sizerVars, chain, mongo, scan, tasks, blocks, last_end_chunk>>

\* line 568-569: one level of get_contract_creation_block; when it returns,
\* the cursor document is inserted
RunLocate ==
    /\ run.pc = "locating"
    /\ loc.pc = "running"
    /\ loc' = LocatorLevel(loc)
    /\ run' = IF loc'.pc = "returned"
              THEN [run EXCEPT !.pc = "ready", !.cutoff_block = loc'.result]
              ELSE IF loc'.pc = "RecursionError"
              THEN [run EXCEPT !.pc = "failed"]
              ELSE run
    /\ mongo' = IF loc'.pc = "returned" THEN loc'.result ELSE mongo
    /\ UNCHANGED <<retryVars, sizerVars, chain, scan, tasks, blocks, last_end_chunk>>

\* line 583: the range run hands to scan
RunScanEnd(cutoff_block, end_block) == cutoff_block + MAX_CHUNK_SIZE * 5 + 1

\* lines 574-583: end_block = latest - 1 (get_suggested_scan_end_block), the
\* headers of cutoff_block and end_block are read for the log line (get_block
\* raises BlockNotFound for a block the node does not have), then scan is
\* called
RunScan ==
    /\ run.pc = "ready"
    /\ LET end_block == chain.latest - 1
           found == /\ get_block_timestamp(run.cutoff_block) # Null
                    /\ get_block_timestamp(end_block) # Null
           scan_end == RunScanEnd(run.cutoff_block, end_block)
       IN  IF found /\ run.cutoff_block <= scan_end
           THEN /\ run' = [run EXCEPT !.pc = "scanning", !.end_block = end_block]
                /\ scan' = ScanEnter(run.cutoff_block, scan_end, start_chunk_size)
                /\ tasks' = Segments(run.cutoff_block, scan_end, start_chunk_size)
           ELSE /\ run' = [run EXCEPT !.pc = "failed", !.end_block = end_block]
                /\ UNCHANGED <<scan, tasks>>
    /\ UNCHANGED <<retryVars, sizerVars, locatorVars, chain, mongo, blocks, last_end_chunk>>

\* The cycles tried, as <<cursor document, chain>>, all against a node that
\* refuses ranges that reach beyond its head.  No cursor, creation at 500,
\* latest 520 and a transfer at 517; the same with one more transfer in the
\* latest block; cursor 100 on a quiet chain whose latest block is 100; no
\* cursor and a contract created in the latest block; a cursor left beyond the
\* head by a reorganisation.
SingleHitChain == Chain(520, <<Log(517, 1, 3)>>, {}, 500, TRUE)
TipHitChain == Chain(520, <<Log(517, 1, 3), Log(520, 2, 0)>>, {}, 500, TRUE)
CaughtUpChain == Chain(100, << >>, {}, 50, TRUE)
JustCreatedChain == Chain(8, << >>, {}, 8, TRUE)
ShortChain == Chain(90, << >>, {}, 50, TRUE)
RunCycles ==
    {<<Null, SingleHitChain>>, <<Null, TipHitChain>>, <<100, CaughtUpChain>>, <<Null, JustCreatedChain>>,
     <<100, ShortChain>>}

InitRun ==
    /\ rw = RetryIdle /\ sz = SizerIdle /\ loc = LocatorIdle
    /\ oracleW = 0
    /\ faults = 0
    /\ \E c \in RunCycles : mongo = c[1] /\ chain = c[2]
    /\ run = [RunIdle EXCEPT !.pc = "start"]
    /\ scan = [ScanEnter(0, 0, 0) EXCEPT !.pc = "idle"]
    /\ tasks = << >>
    /\ blocks = {}
    /\ last_end_chunk = Null

\* run always asks scan for MAX_CHUNK_SIZE * 5 + 2 blocks (line 583), so on
\* these chains the last segments lie beyond the head, their queries are
\* refused and scan never returns normally: ScanReturns is never enabled.
NextRun ==
    \/ RunStart
    \/ RunLocate
    \/ RunScan
    \/ \E i \in 1..Len(tasks) : TaskGetLogsRaises(i)
    \/ \E i \in 1..Len(tasks) : TaskSleepEnds(i)
    \/ \E i \in 1..Len(tasks) : TaskGetLogsReturns(i)
    \/ \E i \in 1..Len(tasks) : TaskEventTimestamp(i)
    \/ \E i \in 1..Len(tasks) : TaskEndTimestamp(i)
    \/ ScanRaises

(***************************************************************************)
(* Specifications                                                          *)
(***************************************************************************)
SpecRetry == InitRetry /\ [][NextRetry]_vars

SpecSizer == InitSizer /\ [][NextSizer]_vars

SpecLocator == InitLocator /\ [][NextLocator]_vars

SpecScan == InitScan /\ [][NextScan]_vars

SpecRun == InitRun /\ [][NextRun]_vars

SpecPartition == InitPartition /\ [][NextPartition]_vars

SpecSink == InitSink /\ [][NextSink]_vars

\* scan with every pending call answered in the end (every RPC call returns
\* or raises) and every task that can run run by the event loop in the end
SpecScanLive == InitScanLive /\ [][NextScan]_vars /\ WF_vars(NextScan)

\* the same scans without the fairness condition
SpecScanSmall == InitScanLive /\ [][NextScan]_vars


(***************************************************************************)
(* Claims about the concurrent segments (SpecScan) and the cycle (SpecRun) *)
(***************************************************************************)

\* Block b has been fully processed: it lies in the chunks some segment has
\* completed
Processed(b) ==
    \E i \in 1..Len(tasks) : tasks[i].start_b <= b /\ b < tasks[i].current_block

\* C1: at every reachable state every block from the scan start up to the
\* cursor (the last value passed to end_chunk) has been fully processed: a
\* later segment that completes a chunk first does not move the cursor past
\* an earlier segment's unfinished blocks.
C1_CursorIsWatermark ==
    last_end_chunk # Null =>
        \A b \in scan.start_block..last_end_chunk : Processed(b)

\* C2: the values passed to end_chunk never decrease, whatever the
\* interleaving of the segments.
C2_CursorMonotonic ==
    [][last_end_chunk' >= last_end_chunk]_vars

\* C3: in a cycle started by filter.run every log query has
\* to_block <= latest_at_cycle_start - 1, and every event handed to
\* process_event lies in a block <= latest_at_cycle_start - 1.
C3_NoTipReads ==
    run.pc \in {"scanning", "done", "failed"} =>
        /\ \A i \in 1..Len(tasks) :
              tasks[i].pc = "get_logs" =>
                  tasks[i].fetch.end_block <= run.latest_block - 1
        /\ \A r \in blocks : r.key[1] <= run.latest_block - 1

(***************************************************************************)
(* Claims about _retry_web3_call (SpecRetry)                               *)
(***************************************************************************)

\* C4: retry-and-shrink.  Every call of func is on [from, to'] with the same
\* from; the first is on the requested range and each retry is on
\* [from, from + (to - from) // 2] of the range before it; a returned tuple
\* holds the upper bound of the accepted (last) call and the logs func gave
\* for exactly that range, with from <= t <= requested to.  For [1000, 2000]
\* the first four attempts are [1000,2000], [1000,1500], [1000,1250],
\* [1000,1125], and a node accepting the fourth yields actual_to = 1125.
C4_RetryAndShrink ==
    rw.retries >= 1 =>
        /\ \A k \in 1..Len(rw.calls) :
              /\ rw.calls[k].from_block = rw.start_block
              /\ k = 1 => rw.calls[k].to_block = rw.requested
              /\ k > 1 => rw.calls[k].to_block =
                            rw.start_block + ((rw.calls[k-1].to_block - rw.start_block) \div 2)
        /\ rw.pc = "returned" =>
              /\ rw.calls[Len(rw.calls)].ok
              /\ \A k \in 1..(Len(rw.calls) - 1) : ~rw.calls[k].ok
              /\ rw.ret_end = rw.calls[Len(rw.calls)].to_block
              /\ rw.ret_logs = <<rw.start_block, rw.ret_end>>
              /\ rw.start_block <= rw.ret_end
              /\ rw.ret_end <= rw.requested
        /\ (rw.start_block = 1000 /\ rw.requested = 2000 /\ Len(rw.calls) = 4) =>
              /\ [k \in 1..4 |-> rw.calls[k].to_block] = <<2000, 1500, 1250, 1125>>
              /\ rw.pc = "returned" => rw.ret_end = 1125

C4_Witness ==
    /\ rw.start_block = 1000 /\ rw.requested = 2000
    /\ rw.pc = "returned" /\ Len(rw.calls) = 4 /\ rw.ret_end = 1125

\* C5: bounded retries.  With retries >= 1 func is called at most `retries`
\* times; when every one of the `retries` attempts failed the call raises the
\* error of the last attempt and returns nothing; a returned range is never
\* one whose query failed.
C5_BoundedRetries ==
    rw.retries >= 1 =>
        /\ Len(rw.calls) <= rw.retries
        /\ rw.pc = "raised" =>
              /\ Len(rw.calls) = rw.retries
              /\ \A k \in 1..Len(rw.calls) : ~rw.calls[k].ok
              /\ rw.err = rw.retries
              /\ rw.ret_end = Null /\ rw.ret_logs = << >>
        /\ rw.pc = "returned" =>
              \E k \in 1..Len(rw.calls) :
                  /\ rw.calls[k].ok
                  /\ rw.calls[k].to_block = rw.ret_end
        /\ (rw.pc = "calling" /\ rw.i = rw.retries - 1) =>
              \A k \in 1..Len(rw.calls) : ~rw.calls[k].ok

C5_Witness ==
    /\ rw.retries = default_max_request_retries
    /\ rw.pc = "raised" /\ Len(rw.calls) = rw.retries

\* ceil(log2(n / w)) for n, w >= 1: the least integer k with 2^k >= n / w
\* (negative when w >= 2 n)
Pow2(k) == 2 ^ k
CeilLog2Ratio(n, w) ==
    IF n > w
    THEN CHOOSE k \in 1..20 : w * Pow2(k) >= n /\ w * Pow2(k - 1) < n
    ELSE -(CHOOSE j \in 0..20 : n * Pow2(j) <= w /\ n * Pow2(j + 1) > w)

ShrinkBound == CeilLog2Ratio(rw.requested - rw.start_block + 1, oracleW) + 1

\* C6 as stated: against a node that accepts exactly the ranges of at most W
\* blocks, the call (here with the default max_request_retries = 4) returns
\* successfully within ceil(log2((to-from+1)/W)) + 1 attempts.
C6_ShrinkConvergence_Stated ==
    (oracleW >= 1 /\ rw.retries = default_max_request_retries) =>
        /\ rw.pc # "raised"
        /\ rw.pc = "returned" => Len(rw.calls) <= ShrinkBound

\* C6 amended: against such a node the call needs at most
\* B = max(1, ceil(log2((to-from+1)/W)) + 1) attempts: whenever it returns it
\* has made at most B attempts, it returns whenever B <= retries, and
\* otherwise it raises after exactly `retries` failed attempts.
C6_ShrinkConvergence ==
    (oracleW >= 1 /\ rw.retries >= 1) =>
        /\ rw.pc = "returned" => Len(rw.calls) <= Max(1, ShrinkBound)
        /\ Max(1, ShrinkBound) <= rw.retries => rw.pc # "raised"
        /\ rw.pc = "raised" => Len(rw.calls) = rw.retries

C6_Witness ==
    /\ oracleW = 1 /\ rw.requested - rw.start_block = 7
    /\ rw.pc = "returned" /\ Len(rw.calls) = 4 /\ ShrinkBound = 4

(***************************************************************************)
(* Claims about get_contract_creation_block (SpecLocator)                  *)
(***************************************************************************)

CeilLog2(n) == CeilLog2Ratio(n, 1)

\* C7: for a monotone has-code predicate whose transition height c lies in
\* [lo, hi] (c = hi and c = lo + 1 included) the search terminates and returns
\* c, with a number of code_at queries logarithmic in hi - lo.
C7_LocatorCorrect ==
    (loc.pc # "idle" /\ loc.creation \in loc.lo..loc.hi) =>
        /\ loc.pc # "RecursionError"
        /\ loc.pc = "returned" =>
              /\ loc.result = loc.creation
              /\ loc.queries <= 2 * (CeilLog2(loc.hi - loc.lo + 1) + 2)

\* C8: when code_at(hi) is empty, or code_at(lo) is non-empty with the
\* creation before lo, the search ends with ContractNotFound: it returns no
\* height and does not recurse without end.
C8_LocatorNotFound ==
    (loc.pc # "idle" /\ (~HasCode(loc.creation, loc.hi) \/ loc.creation < loc.lo)) =>
        loc.pc \in {"running", "ContractNotFound"}

(***************************************************************************)
(* Claims about the chunk sizing (SpecSizer)                               *)
(***************************************************************************)

\* C9 as stated: for every current size, event count and configured
\* max_chunk_scan_size, min_chunk <= estimate_next_chunk_size(..) <= max_chunk.
C9_SizerBounds_Stated ==
    Len(sz.sizes) > 0 =>
        /\ min_scan_chunk_size <= sz.est
        /\ sz.est <= sz.max_scan_chunk_size

\* C9 amended: the estimate never exceeds max_chunk, and it is at least
\* min_chunk in every configuration with max_chunk_scan_size >= min_chunk
\* (with a smaller ceiling the estimate is the ceiling itself).
C9_SizerBounds ==
    Len(sz.sizes) > 0 =>
        /\ sz.est <= sz.max_scan_chunk_size
        /\ sz.max_scan_chunk_size >= min_scan_chunk_size => sz.est >= min_scan_chunk_size
        /\ sz.max_scan_chunk_size < min_scan_chunk_size => sz.est = sz.max_scan_chunk_size

C9_Witness ==
    /\ Len(sz.sizes) > 0
    /\ sz.found[Len(sz.found)] = 0
    /\ sz.max_scan_chunk_size > min_scan_chunk_size
    /\ sz.est = sz.max_scan_chunk_size

Clamp(x, lo, hi) == Min(hi, Max(lo, x))

\* C10: with min_chunk <= max_chunk, the size used for the next chunk is
\* min_chunk when the previous chunk returned an event and otherwise
\* clamp(2 * previous size, min_chunk, max_chunk), max_chunk being the lesser
\* of the configured ceiling and MAX_CHUNK_SIZE; with min 10, max 1000 and
\* initial size 20, six empty chunks give 40, 80, 160, 320, 640, 1000 and a
\* chunk with 3 events then gives 10.
C10_SizerFunction ==
    /\ sz.max_scan_chunk_size >= min_scan_chunk_size =>
          \A k \in 1..Len(sz.sizes) :
              LET prev == IF k = 1 THEN sz.initial ELSE sz.sizes[k-1]
              IN  sz.sizes[k] =
                     IF sz.found[k] > 0
                     THEN min_scan_chunk_size
                     ELSE Clamp(2 * prev, min_scan_chunk_size,
                                Min(sz.max_scan_chunk_size, MAX_CHUNK_SIZE))
    /\ (/\ sz.max_scan_chunk_size = 1000
        /\ sz.initial = 20
        /\ sz.found = <<0, 0, 0, 0, 0, 0, 3>>) =>
          sz.sizes = <<40, 80, 160, 320, 640, 1000, 10>>

C10_Witness ==
    /\ sz.max_scan_chunk_size = 1000
    /\ sz.initial = 20
    /\ sz.found = <<0, 0, 0, 0, 0, 0, 3>>
    /\ sz.sizes[7] = 10

(***************************************************************************)
(* Claims about the start and the extent of a cycle (SpecRun)              *)
(***************************************************************************)

\* the rewind the comment at line 557 names; run itself rewinds by nothing
chain_reorg_safety_blocks == 10

\* C11: whenever a cursor exists for the contract when the scan of a cycle
\* starts (restored, or freshly seeded at the creation block), the first
\* block queried in the cycle is max(1, cursor - 10).
C11_ReorgAwareStart ==
    (run.pc = "scanning" /\ mongo # Null) =>
        /\ scan.start_block = Max(1, mongo - chain_reorg_safety_blocks)
        /\ tasks[1].start_b = Max(1, mongo - chain_reorg_safety_blocks)

\* C12: when the cursor restored at the start of a cycle equals the latest
\* block height, the cycle issues no log query, hands no event to the store,
\* returns an empty batch and does not fail.
C12_EmptyRange ==
    (loc.pc = "idle" /\ mongo = chain.latest /\ run.pc \notin {"idle", "start"}) =>
        /\ run.pc # "failed"
        /\ \A i \in 1..Len(tasks) :
              tasks[i].pc # "get_logs" /\ tasks[i].fetch.calls = << >>
        /\ blocks = {}
        /\ scan.all_processed = << >>

(***************************************************************************)
(* Claims about a whole scan (SpecScan)                                    *)
(***************************************************************************)

\* C13: when scan(start, end) completes successfully, the last value written
\* as the cursor (the last one passed to end_chunk) is exactly end.
C13_CycleEndState ==
    scan.pc = "returned" => last_end_chunk = scan.end_block

(***************************************************************************)
(* Claims about the partition into segments (SpecPartition)                *)
(***************************************************************************)

\* the nominal width of a segment: stop - start + 1
SegmentWidth(t) == t.end_b - t.start_b + 1

\* C14: for every start <= end every segment taskCreator creates is at most
\* MAX_CHUNK_SIZE = 1000 blocks wide and every segment but the last exactly
\* 1000; for [1, 4001] there are five segments, four of 1000 blocks and one
\* of 2.
C14_SegmentWidth ==
    scan.pc = "gathering" =>
        /\ \A i \in 1..Len(tasks) : SegmentWidth(tasks[i]) <= MAX_CHUNK_SIZE
        /\ \A i \in 1..(Len(tasks) - 1) : SegmentWidth(tasks[i]) = MAX_CHUNK_SIZE
        /\ (scan.start_block = 1 /\ scan.end_block = 4001) =>
              [i \in 1..Len(tasks) |-> SegmentWidth(tasks[i])]
                  = <<1000, 1000, 1000, 1000, 2>>

\* C15: wherever a segment stops with an error raised inside a chunk (retries
\* exhausted, a pending log, a block without header), none of that chunk's
\* events has been handed to the store (new_entries, the events of the chunk
\* at hand that process_event has recorded, is empty): no chunk is abandoned
\* with only a prefix of its events processed.
C15_ChunkAtomicity ==
    \A i \in 1..Len(tasks) :
        tasks[i].pc = "failed" => tasks[i].new_entries = << >>

\* C16: when scan has returned to its caller, normally or by raising the
\* error of a failed segment, every segment task has finished: none is still
\* waiting for an answer after which it would process events or call
\* end_chunk.
C16_StructuredCompletion ==
    scan.pc \in {"returned", "raised"} =>
        \A i \in 1..Len(tasks) : tasks[i].pc \in {"done", "failed"}

\* C17: within one scan, get_block_timestamp is called at most once for
\* every block height, counting the lookups for event blocks and for chunk
\* end blocks of all chunks and all segments.
C17_TimestampFetchedOnce ==
    scan.header_repeats = {}

\* C18: every event process_event has recorded carries the timestamp of the
\* header of its own block; an event whose block has no header the node
\* finds is never recorded, and the segment that met it has failed.
C18_EveryEventTimestamped ==
    /\ \A r \in blocks :
          /\ get_block_timestamp(r.key[1]) # Null
          /\ r.timestamp = isoformat(HeaderTimestamp(r.key[1]))
    /\ \A i \in 1..Len(tasks) :
          (/\ tasks[i].events # << >>
           /\ Cached(tasks[i], Head(tasks[i].events).blockNumber)
           /\ CachedWhen(tasks[i], Head(tasks[i].events).blockNumber) = Null) =>
              /\ tasks[i].pc = "failed"
              /\ EventKey(Head(tasks[i].events)) \notin {r.key : r \in blocks}

C18_Witness ==
    /\ \E i \in 1..Len(tasks) : tasks[i].error = "AttributeError"
    /\ \E r \in blocks : r.key[1] = 1001

(***************************************************************************)
(* Claims about the end of a scan (SpecScanLive)                           *)
(***************************************************************************)

\* scan has returned its batch or raised
ScanEnded == scan.pc \in {"returned", "raised"}

\* the step completes a chunk of segment i
CompletesChunk(i) == tasks'[i].chunks > tasks[i].chunks

\* C19: with every RPC call answered in the end, scan(start, end)
\* eventually returns its batch or raises; in every segment the current
\* block strictly increases with every completed chunk, and a segment
\* completes at most (segment end - segment start + 1) chunks.
C19_CycleEnds ==
    /\ <>ScanEnded
    /\ [](\A i \in 1..Len(tasks) : tasks[i].chunks <= SegmentWidth(tasks[i]))
    /\ [][\A i \in 1..Len(tasks) :
             CompletesChunk(i) => tasks'[i].current_block > tasks[i].current_block]_vars

C19_Witness ==
    /\ scan.pc = "returned"
    /\ Len(tasks) = 2
    /\ \A i \in 1..Len(tasks) : tasks[i].pc = "done" /\ tasks[i].chunks >= 1

(***************************************************************************)
(* Claims about the chunks of a segment (SpecScan)                         *)
(***************************************************************************)

\* C20: every log query of a segment driving [start, end], pending or
\* answered, has from_block >= start and to_block <= end: no segment
\* queries a block of another segment or beyond the end of the scan.
C20_ChunkUpperBound ==
    \A i \in 1..Len(tasks) :
        /\ tasks[i].pc = "get_logs" =>
              /\ tasks[i].fetch.start_block >= tasks[i].start_b
              /\ tasks[i].fetch.end_block <= tasks[i].end_b
        /\ \A k \in 1..Len(tasks[i].fetch.calls) :
              /\ tasks[i].fetch.calls[k].from_block >= tasks[i].start_b
              /\ tasks[i].fetch.calls[k].to_block <= tasks[i].end_b

(***************************************************************************)
(* Claims about the cursor document and the chunks (SpecScan)              *)
(***************************************************************************)

\* C21: once a segment has completed a chunk, the durable cursor of the
\* contract (the document in mongo) holds the actual end of the chunk
\* completed last, so that a cycle started after a crash reads it.
C21_CursorAtChunkBoundary ==
    last_end_chunk # Null => mongo = last_end_chunk

\* block b lies in the range of a log query of segment t that returned
Answered(t, b) ==
    \E k \in 1..Len(t.answered) : t.answered[k][1] <= b /\ b <= t.answered[k][2]

\* C22: within a segment the first successful query starts at the segment
\* start and each later one at the returned end of the one before it + 1,
\* also when retries shrank the range; when the segment completes, every
\* block of [segment start, segment end] lies in the range of some
\* successful log query.
C22_NoGapsAfterShrink ==
    \A i \in 1..Len(tasks) :
        /\ \A k \in 1..Len(tasks[i].answered) :
              tasks[i].answered[k][1] =
                  IF k = 1 THEN tasks[i].start_b ELSE tasks[i].answered[k-1][2] + 1
        /\ tasks[i].pc = "done" =>
              \A b \in tasks[i].start_b..tasks[i].end_b : Answered(tasks[i], b)

\* a segment completed although the range of its first chunk was halved
C22_Witness ==
    \E i \in 1..Len(tasks) :
        /\ tasks[i].pc = "done"
        /\ Len(tasks[i].answered) >= 2
        /\ tasks[i].answered[1] = <<tasks[i].start_b, tasks[i].start_b + 10>>

\* C23: when a block-header lookup of a segment for height h found no block
\* (for an event's block or for a chunk's end block), the segment does not
\* move its current block to h or beyond (and so passes no value >= h to
\* end_chunk) in that scan.
C23_NotFoundHoldsCursor ==
    \A i \in 1..Len(tasks) :
        \A h \in tasks[i].not_found : tasks[i].current_block <= h

\* segment t holds an answer whose next log is in a pending block
AtPendingLog(t) == t.events # << >> /\ Head(t.events).logIndex = Null

\* C24: when a log query returned a log whose logIndex is null, scan_chunk
\* fails at that log: the log is never recorded by process_event, the
\* chunk is not completed (the segment's current block stays at the chunk's
\* start), and the failed segment takes no further step: it issues no
\* further query.
C24_PendingLogFatal ==
    /\ [](/\ \A r \in blocks : r.key[3] # Null
          /\ \A i \in 1..Len(tasks) :
                AtPendingLog(tasks[i]) =>
                    /\ tasks[i].pc = "failed"
                    /\ tasks[i].error = "AssertionError"
                    /\ tasks[i].fetch.pc = "returned"
                    /\ tasks[i].current_block = tasks[i].fetch.start_block)
    /\ [][\A i \in 1..Len(tasks) :
             tasks[i].pc = "failed" => tasks'[i] = tasks[i]]_vars

C24_Witness ==
    \E i \in 1..Len(tasks) :
        /\ AtPendingLog(tasks[i])
        /\ tasks[i].error = "AssertionError"
        /\ tasks[i].chunks >= 1

(***************************************************************************)
(* Claims about process_event (SpecSink)                                   *)
(***************************************************************************)

\* the keys of the events handed to process_event so far
Handed == {scan.all_processed[k] : k \in 1..Len(scan.all_processed)}

\* C25: the recorded transfers are keyed by (block, tx hash, log index):
\* the state holds exactly one record for every key handed to
\* process_event, however often it was handed (events with different keys
\* never overwrite each other), and handing an event that was handed
\* before once more leaves the state as it is.
C25_IdempotentSink ==
    /\ {r.key : r \in blocks} = Handed
    /\ Cardinality(blocks) = Cardinality(Handed)
    /\ \A evt \in SinkEvents :
          EventKey(evt) \in Handed =>
              process_event(blocks, get_block_timestamp(evt.blockNumber), evt) = blocks

C25_Witness ==
    /\ scan.pc = "sink"
    /\ Len(scan.all_processed) = 3
    /\ scan.all_processed[1] = scan.all_processed[3]
    /\ Cardinality(blocks) = 2

(***************************************************************************)
(* Claims about the batch scan returns (SpecScan)                          *)
(***************************************************************************)

\* the keys of the chain's events located in [from_block, to_block]
KeysIn(from_block, to_block) ==
    {EventKey(chain.logs[k]) : k \in {j \in 1..Len(chain.logs) :
        from_block <= chain.logs[j].blockNumber /\ chain.logs[j].blockNumber <= to_block}}

\* C26: when scan(start, end) completes, the batch it returns
\* (all_processed) holds each event of the chain located in [start, end]
\* exactly once and nothing else, for every number of segments and every
\* interleaving.
C26_BatchNoDuplicates ==
    scan.pc = "returned" =>
        /\ \A j, k \in 1..Len(scan.all_processed) :
              j # k => scan.all_processed[j] # scan.all_processed[k]
        /\ {scan.all_processed[k] : k \in 1..Len(scan.all_processed)}
              = KeysIn(scan.start_block, scan.end_block)

(***************************************************************************)
(* Claims about the cover of the partition (SpecPartition)                 *)
(***************************************************************************)

\* the segments whose nominal bounds hold block b
SegmentsOf(b) == {i \in 1..Len(tasks) : tasks[i].start_b <= b /\ b <= tasks[i].end_b}

\* C27: for every start <= end the nominal segment bounds taskCreator
\* creates are contiguous (each segment starts at the stop of the one before
\* it + 1), the first starts at start and the last stops at end, none is
\* empty, and every block of [start, end] lies in exactly one segment.
C27_PartitionCovers ==
    scan.pc = "gathering" =>
        /\ Len(tasks) >= 1
        /\ tasks[1].start_b = scan.start_block
        /\ tasks[Len(tasks)].end_b = scan.end_block
        /\ \A i \in 1..Len(tasks) : tasks[i].start_b <= tasks[i].end_b
        /\ \A i \in 2..Len(tasks) : tasks[i].start_b = tasks[i-1].end_b + 1
        /\ \A b \in scan.start_block..scan.end_block : Cardinality(SegmentsOf(b)) = 1
        /\ \A i \in 1..Len(tasks) :
              scan.start_block <= tasks[i].start_b /\ tasks[i].end_b <= scan.end_block

C27_Witness ==
    /\ scan.pc = "gathering"
    /\ scan.start_block = 1 /\ scan.end_block = 4001
    /\ Len(tasks) = 4
    /\ tasks[4].start_b = 3001 /\ tasks[4].end_b = 4001

(***************************************************************************)
(* Claims about the wait between retries (SpecScan)                        *)
(***************************************************************************)

\* a step of segment j on the answer to its pending call
TaskStep(j) ==
    \/ TaskGetLogsRaises(j)
    \/ TaskGetLogsReturns(j)
    \/ TaskEventTimestamp(j)
    \/ TaskEndTimestamp(j)

\* segment j waits for the answer to a call
AwaitsAnswer(j) == tasks[j].pc \in {"get_logs", "event_ts", "end_ts"}

\* C28: while a segment waits out the delay between a failed log query and
\* its retry, every other segment that waits for an answer can take its
\* step on it: the wait is a suspension point, it does not stall the others.
C28_RetryDelayNoStall ==
    \A i \in 1..Len(tasks) :
        tasks[i].pc = "sleeping" =>
            \A j \in 1..Len(tasks) :
                (j # i /\ AwaitsAnswer(j)) => ENABLED TaskStep(j)

====
